---- MODULE Spec2Model ----
(***************************************************************************)
(* Model of fits2image.py: the byte-scaling transform `bytescale` and the  *)
(* image assembly `array2image`.                                           *)
(*                                                                         *)
(* An ndarray is a record [dtype, shape, elems]: elems is the flat,        *)
(* row-major sequence of the samples.  Three element types are modelled:   *)
(*   "uint8"   - 8-bit unsigned, the type the fast path tests for;         *)
(*   "int16"   - a fixed-width signed integer type (FITS BITPIX = 16):     *)
(*               array arithmetic wraps modulo 2^16;                       *)
(*   "float64" - floating point; a sample is held as the exact integer     *)
(*               number of hundredths (91.07 is 9107), and so are the clip *)
(*               bounds passed with a float64 array.  The arithmetic on    *)
(*               them is exact rational arithmetic on <<num, den>> pairs:  *)
(*               the rounding error of IEEE doubles is not modelled, so a  *)
(*               scaled value lying exactly on k + 1/2 is k + 1 here while *)
(*               the doubles may give k.  Samples are finite (no NaN).     *)
(***************************************************************************)
EXTENDS Integers, Sequences, FiniteSets, TLC

VARIABLES data, promotion, pc, args, before, outcomes, stdout

vars == <<data, promotion, pc, args, before, outcomes, stdout>>

\* Longest generated sample array.
MaxLen == 2

\* An optional argument: None (absent) or Some(v).
None == <<>>
Some(v) == <<v>>

----------------------------------------------------------------------------
(* Inputs *)

DTypes == {"uint8", "int16", "float64"}

\* Sample values per element type (float64 in hundredths).
Samples(dtype) ==
    CASE dtype = "uint8"   -> {0, 5, 255}
      [] dtype = "int16"   -> {-20000, 0, 20000}
      [] dtype = "float64" -> {0, 100, 600}

\* Explicit clip bounds a caller passes with an array of the type: Python
\* integers inside the type's range (float64: in hundredths, 25500 is 255).
ClipValues(dtype) ==
    CASE dtype = "uint8"   -> {0, 5, 255}
      [] dtype = "int16"   -> {-20000, 0, 20000}
      [] dtype = "float64" -> {0, 100, 600, 25500}

ClipChoices(dtype) == {None} \cup {Some(v) : v \in ClipValues(dtype)}

\* Output bounds a caller passes, valid and invalid ones.
OutValues == {-1, 0, 100, 200, 255, 256}

\* How the numpy in use types `numpy scalar - Python int`: "legacy"
\* (numpy 1.x: the Python int counts as an int64, the result is int64 and
\* exact) or "weak" (numpy 2: the Python int takes the scalar's type and the
\* result wraps).
Promotions == {"legacy", "weak"}

\* Shapes of rank 0 to 3 holding n samples.
Shapes(n) ==
    {<<n>>, <<1, n>>, <<1, 1, n>>} \cup (IF n = 1 THEN {<<>>} ELSE {})

SeqsOf(S, n) == [1..n -> S]

Generated ==
    UNION {UNION {{[dtype |-> t, shape |-> s, elems |-> e] :
                      s \in Shapes(n), e \in SeqsOf(Samples(t), n)} :
                  n \in 1..MaxLen} : t \in DTypes}

\* The array of the docstring examples, two decimals kept.
img ==
    [dtype |-> "float64", shape |-> <<3, 3>>,
     elems |-> <<9107, 339, 8442, 7388, 8091, 489, 5154, 3446, 2759>>]

\* A constant 2x2 integer array.
const5 == [dtype |-> "int16", shape |-> <<2, 2>>, elems |-> <<5, 5, 5, 5>>]

Arrays == Generated \cup {img, const5}

----------------------------------------------------------------------------
(* numpy primitives *)

\* ndarray.min() and ndarray.max() of a non-empty array.
Min(e) == CHOOSE x \in {e[i] : i \in DOMAIN e} : \A i \in DOMAIN e : x <= e[i]
Max(e) == CHOOSE x \in {e[i] : i \in DOMAIN e} : \A i \in DOMAIN e : x >= e[i]

\* Two's-complement wrap of a 16-bit signed result.
Wrap16(x) == ((x + 32768) % 65536) - 32768

\* data[data < c] = c and data[data > c] = c, in place.
SetBelow(e, c) == [i \in DOMAIN e |-> IF e[i] < c THEN c ELSE e[i]]
SetAbove(e, c) == [i \in DOMAIN e |-> IF e[i] > c THEN c ELSE e[i]]

\* x - y where x is an element of an array of the type and y a scalar in
\* the type's range: an int16 array keeps its type and wraps.
ArraySub(dtype, x, y) == IF dtype = "int16" THEN Wrap16(x - y) ELSE x - y

\* cmax - cmin of two scalars.  Each is a numpy scalar of the array's type
\* when it was defaulted from data.max() / data.min(), a Python int when it
\* was passed.  Two int16 scalars subtract in int16 and wrap; two Python ints
\* subtract exactly; a mixed pair follows the promotion rule in use.
ScalarSub(dtype, prom, x, xDefaulted, y, yDefaulted) ==
    IF dtype # "int16" THEN x - y
    ELSE IF xDefaulted /\ yDefaulted THEN Wrap16(x - y)
    ELSE IF (xDefaulted \/ yDefaulted) /\ prom = "weak" THEN Wrap16(x - y)
    ELSE x - y

\* The value 1 in the unit the samples of the type are held in.
One(dtype) == IF dtype = "float64" THEN 100 ELSE 1

\* Clip with the clipping left out.
ClipOmitted(q, lo, hi) == q

\* Rationals <<num, den>> with den > 0.
\* q.clip(lo, hi)
Clip(q, lo, hi) ==
    IF q[1] < lo * q[2] THEN <<lo * q[2], q[2]>>
    ELSE IF q[1] > hi * q[2] THEN <<hi * q[2], q[2]>>
    ELSE q

\* q + 0.5
AddHalf(q) == <<2 * q[1] + q[2], 2 * q[2]>>

\* q.astype(np.uint8): truncation toward zero, then the low 8 bits.
AsUint8(q) ==
    LET t == IF q[1] >= 0 THEN q[1] \div q[2] ELSE -((-q[1]) \div q[2])
    IN  t % 256

----------------------------------------------------------------------------
(* Outcomes of a call *)

\* A returned byte array; same: it is the caller's array object itself.
Returned(b, same) ==
    [kind |-> "ok", err |-> "", bytes |-> b, same |-> same, size |-> <<>>]

\* A raised ValueError with its message (backquotes dropped).
Raised(msg) ==
    [kind |-> "error", err |-> msg, bytes |-> <<>>, same |-> FALSE, size |-> <<>>]

\* Image.frombytes('L', size, bytes).
ImageL(size, b) ==
    [kind |-> "image", err |-> "", bytes |-> b, same |-> FALSE, size |-> size]

HighMsg == "high should be less than or equal to 255."
LowMsg == "low should be greater than or equal to 0."
HighLowMsg == "high should be greater than or equal to low."
CmaxMsg == "cmax should be larger than cmin."
ShapeMsg == "ERROR: the image data needs to be in 2D."

----------------------------------------------------------------------------
(* bytescale *)

\* CheckBounds with the check of low left out.
CheckBoundsNoLow(high, low) ==
    IF high > 255 THEN HighMsg
    ELSE IF high < low THEN HighLowMsg
    ELSE ""

\* The checks of the output bounds: the message raised, "" when none is.
CheckBounds(high, low) ==
    IF high > 255 THEN HighMsg
    ELSE IF low < 0 THEN LowMsg
    ELSE IF high < low THEN HighLowMsg
    ELSE ""

\* cmin and cmax after defaulting.
EffCmin(e, cmin) == IF cmin = None THEN Min(e) ELSE cmin[1]
EffCmax(e, cmax) == IF cmax = None THEN Max(e) ELSE cmax[1]

\* ClipInPlace with the two assignments left out.
ClipInPlaceOmitted(e, cmin, cmax) == e

\* The two in-place clipping assignments, in the code's order.
ClipInPlace(e, cmin, cmax) == SetAbove(SetBelow(e, cmin), cmax)

\* cscale = cmax - cmin, before the test of its sign.
CScale(dtype, prom, e, cmin, cmax) ==
    ScalarSub(dtype, prom, EffCmax(e, cmax), cmax = None,
              EffCmin(e, cmin), cmin = None)

\* (data - cmin) * scale + low for one element x of the clipped array, with
\* scale = float(high - low) / cscale and cscale > 0.
ByteDatum(dtype, x, cmin, cscale, high, low) ==
    <<ArraySub(dtype, x, cmin) * (high - low) + low * cscale, cscale>>

\* (bytedata.clip(low, high) + 0.5).astype(np.uint8) for one element.
Quantize(q, high, low) == AsUint8(AddHalf(Clip(q, low, high)))

\* The part of bytescale after the checks of the output bounds.
Rescale(d, prom, cmin, cmax, high, low) ==
    LET min_data == Min(d.elems)
        max_data == Max(d.elems)
        cmin1 == EffCmin(d.elems, cmin)
        cmax1 == EffCmax(d.elems, cmax)
        clipped == ClipInPlace(d.elems, cmin1, cmax1)
        diff == CScale(d.dtype, prom, d.elems, cmin, cmax)
        cscale == IF diff = 0 THEN One(d.dtype) ELSE diff
    IN  IF diff < 0
        THEN [elems |-> clipped, printed |-> << <<min_data, max_data>> >>,
              out |-> Raised(CmaxMsg)]
        ELSE [elems |-> clipped, printed |-> << <<min_data, max_data>> >>,
              out |-> Returned(
                  [i \in DOMAIN clipped |->
                      Quantize(ByteDatum(d.dtype, clipped[i], cmin1, cscale,
                                         high, low), high, low)],
                  FALSE)]

\* bytescale with the output bounds checked before the element type.
bytescaleChecksFirst(d, prom, cmin, cmax, high, low) ==
    IF CheckBounds(high, low) # ""
    THEN [elems |-> d.elems, printed |-> <<>>,
          out |-> Raised(CheckBounds(high, low))]
    ELSE IF d.dtype = "uint8"
    THEN [elems |-> d.elems, printed |-> <<>>, out |-> Returned(d.elems, TRUE)]
    ELSE Rescale(d, prom, cmin, cmax, high, low)

\* bytescale(data, cmin, cmax, high, low): the array's elements after the
\* call, what the call printed, and its outcome.
bytescale(d, prom, cmin, cmax, high, low) ==
    IF d.dtype = "uint8"
    THEN [elems |-> d.elems, printed |-> <<>>, out |-> Returned(d.elems, TRUE)]
    ELSE IF CheckBounds(high, low) # ""
    THEN [elems |-> d.elems, printed |-> <<>>,
          out |-> Raised(CheckBounds(high, low))]
    ELSE Rescale(d, prom, cmin, cmax, high, low)

\* array2image with bytescale called before the rank is checked.
array2imageScaleFirst(d, prom, smin, smax) ==
    LET r == bytescale(d, prom, smin, smax, 255, 0)
    IN  IF Len(d.shape) # 2
        THEN [r EXCEPT !.out = Raised(ShapeMsg)]
        ELSE IF r.out.kind = "ok"
        THEN [r EXCEPT !.out = ImageL(<<d.shape[2], d.shape[1]>>, r.out.bytes)]
        ELSE r

\* array2image(data, smin, smax).
array2image(d, prom, smin, smax) ==
    IF Len(d.shape) # 2
    THEN [elems |-> d.elems, printed |-> <<>>, out |-> Raised(ShapeMsg)]
    ELSE LET r == bytescale(d, prom, smin, smax, 255, 0)
         IN  IF r.out.kind = "ok"
             THEN [r EXCEPT !.out = ImageL(<<d.shape[2], d.shape[1]>>,
                                           r.out.bytes)]
             ELSE r

----------------------------------------------------------------------------
(* The state machine: one array object, one process calling on it *)

NoArgs == [cmin |-> None, cmax |-> None, high |-> 255, low |-> 0]

Init ==
    /\ data \in Arrays
    /\ promotion \in Promotions
    /\ pc = "ready"
    /\ args = NoArgs
    /\ before = data.elems
    /\ outcomes = <<>>
    /\ stdout = <<>>

\* A caller holding a 2D array calls bytescale on it.
CallBytescale ==
    /\ pc = "ready"
    /\ Len(data.shape) = 2
    /\ \E cmin \in ClipChoices(data.dtype), cmax \in ClipChoices(data.dtype),
          high \in OutValues, low \in OutValues :
          LET r == bytescale(data, promotion, cmin, cmax, high, low)
          IN  /\ args' = [cmin |-> cmin, cmax |-> cmax, high |-> high, low |-> low]
              /\ before' = data.elems
              /\ data' = [data EXCEPT !.elems = r.elems]
              /\ stdout' = stdout \o r.printed
              /\ outcomes' = Append(outcomes, r.out)
    /\ pc' = "called"
    /\ UNCHANGED promotion

\* The caller calls bytescale again, on the same array object with the
\* same arguments.
RetryBytescale ==
    /\ pc = "called"
    /\ LET r == bytescale(data, promotion, args.cmin, args.cmax, args.high, args.low)
       IN  /\ before' = data.elems
           /\ data' = [data EXCEPT !.elems = r.elems]
           /\ stdout' = stdout \o r.printed
           /\ outcomes' = Append(outcomes, r.out)
    /\ pc' = "retried"
    /\ UNCHANGED <<promotion, args>>

\* fits2image hands the loaded array to array2image with the -min / -max
\* options.
CallArray2Image ==
    /\ pc = "ready"
    /\ \E smin \in ClipChoices(data.dtype), smax \in ClipChoices(data.dtype) :
          LET r == array2image(data, promotion, smin, smax)
          IN  /\ args' = [cmin |-> smin, cmax |-> smax, high |-> 255, low |-> 0]
              /\ before' = data.elems
              /\ data' = [data EXCEPT !.elems = r.elems]
              /\ stdout' = stdout \o r.printed
              /\ outcomes' = Append(outcomes, r.out)
    /\ pc' = "assembled"
    /\ UNCHANGED promotion

Next == CallBytescale \/ RetryBytescale \/ CallArray2Image

Spec == Init /\ [][Next]_vars

----------------------------------------------------------------------------
(* Vocabulary of the properties *)

\* The most recent call was a direct call of bytescale.
Called == pc \in {"called", "retried"}

\* The outcome of the most recent call.
Last == outcomes[Len(outcomes)]

ValidOut == 0 <= args.low /\ args.low <= args.high /\ args.high <= 255

InvalidOut == args.high > 255 \/ args.low < 0 \/ args.high < args.low

\* The clip bounds of the most recent call after defaulting, as numbers,
\* from the array as it was before that call.
TrueCmin == EffCmin(before, args.cmin)
TrueCmax == EffCmax(before, args.cmax)

\* floor(clip((v' - cmin) * (high - low) / cscale + low, low, high) + 0.5) in
\* unbounded real arithmetic, v' the sample v clipped to [cmin, cmax].
Expected(v, unit) ==
    LET v1 == IF v < TrueCmin THEN TrueCmin ELSE v
        v2 == IF v1 > TrueCmax THEN TrueCmax ELSE v1
        cs == IF TrueCmax - TrueCmin = 0 THEN unit ELSE TrueCmax - TrueCmin
        q  == <<(v2 - TrueCmin) * (args.high - args.low) + args.low * cs, cs>>
        c  == IF q[1] < args.low * cs THEN <<args.low * cs, cs>>
              ELSE IF q[1] > args.high * cs THEN <<args.high * cs, cs>>
              ELSE q
    IN  (2 * c[1] + cs) \div (2 * cs)

----------------------------------------------------------------------------
(* C1 *)

\* C1 as stated: for every array, already 8-bit unsigned ones included, and
\* every 0 <= low <= high <= 255, each element of the returned array lies in
\* [low, high].
C1_AllTypesInRange ==
    (Called /\ ValidOut /\ Last.kind = "ok") =>
        \A i \in DOMAIN Last.bytes :
            args.low <= Last.bytes[i] /\ Last.bytes[i] <= args.high

\* C1 amended: for every array that is not 8-bit unsigned and every
\* 0 <= low <= high <= 255, each element of the returned array lies in
\* [low, high].
C1_RescaledInRange ==
    (Called /\ data.dtype # "uint8" /\ ValidOut /\ Last.kind = "ok") =>
        \A i \in DOMAIN Last.bytes :
            args.low <= Last.bytes[i] /\ Last.bytes[i] <= args.high

\* An int16 array whose second difference data - cmin wrapped is returned
\* within [100, 200].
C1_Witness ==
    /\ pc = "called" /\ data.dtype = "int16"
    /\ before = <<0, 20000>>
    /\ args = [cmin |-> Some(-20000), cmax |-> Some(20000), high |-> 200, low |-> 100]
    /\ Last.kind = "ok" /\ Last.bytes = <<150, 100>>

----------------------------------------------------------------------------
(* C2 *)

\* C2 as stated: whatever the element type, a call with high > 255, low < 0
\* or high < low fails and returns no byte array.
C2_AllTypesRaise == (Called /\ InvalidOut) => Last.kind = "error"

\* C2 amended: for every array that is not 8-bit unsigned, a call with
\* high > 255, low < 0 or high < low fails with one of the three messages
\* about the output bounds, and returns no byte array.
C2_RescaledRaise ==
    (Called /\ data.dtype # "uint8" /\ InvalidOut) =>
        /\ Last.kind = "error"
        /\ Last.err \in {HighMsg, LowMsg, HighLowMsg}
        /\ Last.bytes = <<>>

\* A float64 array called with low = -1 and a valid high fails.
C2_Witness ==
    /\ pc = "called" /\ data.dtype = "float64"
    /\ args.low = -1 /\ args.high = 255
    /\ Last = Raised(LowMsg)

----------------------------------------------------------------------------
(* C3 *)

\* C3: with valid output bounds, the call on an array that is not 8-bit
\* unsigned fails exactly when the clip bounds after defaulting are
\* inverted, cmax < cmin.
C3_RaisesIffInverted ==
    (Called /\ data.dtype # "uint8" /\ ValidOut) =>
        (Last.kind = "error" <=> TrueCmax < TrueCmin)

----------------------------------------------------------------------------
(* C4 *)

\* C4 as stated: when the clip bounds after defaulting are equal, the call
\* (with valid output bounds) raises no error and every output element
\* equals low.
C4_AllTypesLow ==
    (Called /\ ValidOut /\ TrueCmin = TrueCmax) =>
        /\ Last.kind = "ok"
        /\ \A i \in DOMAIN Last.bytes : Last.bytes[i] = args.low

\* C4 amended: for an array that is not 8-bit unsigned and valid output
\* bounds, when the clip bounds after defaulting are equal the call raises
\* no error and every output element equals low; the constant array
\* [[5,5],[5,5]] with no bounds yields [[0,0],[0,0]].
C4_RescaledLow ==
    /\ (Called /\ data.dtype # "uint8" /\ ValidOut /\ TrueCmin = TrueCmax) =>
          /\ Last.kind = "ok"
          /\ Len(Last.bytes) = Len(before)
          /\ \A i \in DOMAIN Last.bytes : Last.bytes[i] = args.low
    /\ (pc = "called" /\ before = const5.elems /\ data.dtype = const5.dtype
        /\ args = NoArgs) => Last.bytes = <<0, 0, 0, 0>>

\* Equal explicit bounds on an array that is not constant: all output is low.
C4_Witness ==
    /\ pc = "called" /\ data.dtype = "float64"
    /\ before = <<0, 600>>
    /\ args = [cmin |-> Some(100), cmax |-> Some(100), high |-> 200, low |-> 100]
    /\ Last.kind = "ok" /\ Last.bytes = <<100, 100>>

----------------------------------------------------------------------------
(* C5 *)

\* C5: for an 8-bit unsigned array, whatever cmin, cmax, low and high are,
\* bytescale returns the same array object, no element changed, and prints
\* nothing.
C5_Uint8PassThrough ==
    (Called /\ data.dtype = "uint8") =>
        /\ Last.kind = "ok" /\ Last.same
        /\ Last.bytes = before
        /\ data.elems = before
        /\ stdout = <<>>

\* An 8-bit array called with explicit clip bounds inside its range and
\* high > 255 comes back untouched.
C5_Witness ==
    /\ pc = "called" /\ data.dtype = "uint8"
    /\ before = <<0, 255>>
    /\ args = [cmin |-> Some(5), cmax |-> Some(5), high |-> 256, low |-> 100]
    /\ Last = Returned(<<0, 255>>, TRUE)

----------------------------------------------------------------------------
(* C6 *)

\* C6: array2image fails with the shape error for every array whose rank is
\* not 2, before bytescale runs: the array is not clipped and nothing is
\* printed; for a rank-2 array the shape error is not raised.
C6_RankChecked ==
    pc = "assembled" =>
        /\ Len(data.shape) # 2 =>
              /\ Last = Raised(ShapeMsg)
              /\ data.elems = before
              /\ stdout = <<>>
        /\ Len(data.shape) = 2 => Last.err # ShapeMsg

\* A rank-3 float64 array passed with a -max that would have clipped it.
C6_Witness ==
    /\ pc = "assembled" /\ data.dtype = "float64"
    /\ data.shape = <<1, 1, 2>> /\ before = <<100, 600>>
    /\ args.cmax = Some(0)
    /\ Last = Raised(ShapeMsg)

----------------------------------------------------------------------------
(* C7 *)

\* C7: under fixed bounds the output is monotonic in the input: for two
\* elements with pre-call values a <= b, the output bytes satisfy
\* scale(a) <= scale(b).
C7_Monotonic ==
    (Called /\ Last.kind = "ok") =>
        \A i, j \in DOMAIN Last.bytes :
            before[i] <= before[j] => Last.bytes[i] <= Last.bytes[j]

----------------------------------------------------------------------------
(* C8 *)

\* C8: a second call on the same array object with the same arguments has
\* the outcome of the first: the same bytes, or the same error.
C8_RetrySameOutcome == pc = "retried" => outcomes[2] = outcomes[1]

----------------------------------------------------------------------------
(* C9 *)

\* C9: for an array that is not 8-bit unsigned, every returned element is
\* floor(clip((v' - cmin) * (high - low) / cscale + low, low, high) + 0.5)
\* with real-valued arithmetic.
C9_Formula ==
    (Called /\ data.dtype # "uint8" /\ Last.kind = "ok") =>
        \A i \in DOMAIN Last.bytes :
            Last.bytes[i] = Expected(before[i], One(data.dtype))

----------------------------------------------------------------------------
(* C10 *)

\* C10: when bytescale fails, the caller's array holds the values it held
\* before the call.
C10_FailureLeavesData == (Called /\ Last.kind = "error") => data.elems = before

====
